---- MODULE Spec2Model ----
(***************************************************************************)
(* A model of src/state-machine.ts: StateMachine.create builds the event   *)
(* map and the reachability index of a configuration, and buildEvent       *)
(* builds, per event name, the function that runs the before / leave /     *)
(* enter / change / after callbacks around the change of fsm.current.      *)
(*                                                                         *)
(* Callbacks are caller code.  A callback that is defined is modelled by   *)
(* two steps, its start and its end; between them it may call the machine  *)
(* again (fire an event, call fsm.transition or fsm.transition.cancel,     *)
(* keep a reference to fsm.transition), and it ends by returning           *)
(* undefined, false or ASYNC, or by throwing.  The calls in progress are   *)
(* the frames of `stack`.                                                  *)
(***************************************************************************)
EXTENDS Naturals, Sequences, FiniteSets, TLC

VARIABLES
    cfg,          \* the configuration given to create (never changes)
    map,          \* create's `map`:         event -> (from -> to)
    transitions,  \* create's `transitions`: state -> sequence of event names
    current,      \* fsm.current
    transition,   \* fsm.transition: null, or the prepared closure
    stack,        \* the calls in progress, innermost last
    kept,         \* a reference to a transition closure that the caller saved
    keptLive,     \* kept is the closure most recently put in fsm.transition
    keptUsed,     \* kept, or its cancel, has been invoked
    suspended,    \* the event that prepared fsm.transition returned PENDING
    calls,        \* the calls callbacks have made since the outermost call began
    phase         \* "create" until create has fired the initial event

vars == <<cfg, map, transitions, current, transition, stack, kept, keptLive,
          keptUsed, suspended, calls, phase>>

----------------------------------------------------------------------------
(* Bounds of the model *)

\* the most calls into the machine that the callbacks of one outermost call
\* make
MaxNested == 1

\* the most event specifications of the configurations the transition table
\* builder is run on by itself
MaxEvents == 3

----------------------------------------------------------------------------
(* Constants of the program *)

WILDCARD == "*"
ASYNC == "async"

SUCCEEDED == "SUCCEEDED"
NOTRANSITION == "NOTRANSITION"
CANCELLED == "CANCELLED"
PENDING == "PENDING"

INVALID_TRANSITION == "INVALID_TRANSITION"
PENDING_TRANSITION == "PENDING_TRANSITION"
INVALID_CALLBACK == "INVALID_CALLBACK"

\* the values of JavaScript the model tells apart
undefined == "undefined"
false == "false"
\* what a call ends with when an exception leaves it
raised == "raised"

\* fsm.transition when it holds no closure (undefined at first, then null)
null == [name |-> "", from |-> "", to |-> ""]

----------------------------------------------------------------------------
(* The transition table builder: create, lines 36-63 *)

\* an event specification { name, from, to }: `from` given as an Array
\* (isArray), as one state name (a sequence of one) or not at all (the empty
\* sequence); `to` not given is "" (which e.to || ... treats alike)
EventSpec(name, isArray, from, to) ==
    [name |-> name, isArray |-> isArray, from |-> from, to |-> to]

\* line 47: the list of source states of a specification
FromList(e) ==
    IF e.isArray THEN e.from
    ELSE IF e.from # <<>> /\ e.from[1] # "" THEN <<e.from[1]>>
    ELSE <<WILDCARD>>

\* lines 49-54: the loop over the source states, from index n on
RECURSIVE addFrom(_, _, _, _)
addFrom(acc, e, from, n) ==
    IF n > Len(from) THEN acc
    ELSE LET s  == from[n]
             tr == IF s \in DOMAIN acc.transitions
                   THEN acc.transitions[s] ELSE <<>>
             tr2 == [x \in DOMAIN acc.transitions \cup {s} |->
                        IF x = s THEN Append(tr, e.name)
                        ELSE acc.transitions[x]]
             to == IF e.to # "" THEN e.to ELSE s
             m  == acc.map[e.name]
             m2 == [x \in DOMAIN m \cup {s} |-> IF x = s THEN to ELSE m[x]]
         IN addFrom([map |-> [acc.map EXCEPT ![e.name] = m2],
                     transitions |-> tr2], e, from, n + 1)

\* an add that leaves an event alone once a specification has named it
addOnce(acc, e) ==
    IF e.name \in DOMAIN acc.map THEN acc
    ELSE addFrom([map |-> [x \in DOMAIN acc.map \cup {e.name} |->
                              IF x = e.name THEN << >> ELSE acc.map[x]],
                  transitions |-> acc.transitions], e, FromList(e), 1)

\* lines 46-55: add
add(acc, e) ==
    LET m0 == IF e.name \in DOMAIN acc.map THEN acc.map
              ELSE [x \in DOMAIN acc.map \cup {e.name} |->
                       IF x = e.name THEN << >> ELSE acc.map[x]]
    IN addFrom([map |-> m0, transitions |-> acc.transitions], e, FromList(e), 1)

\* lines 62-63: the loop over cfg.events
RECURSIVE addAll(_, _, _)
addAll(acc, events, n) ==
    IF n > Len(events) THEN acc
    ELSE addAll(add(acc, events[n]), events, n + 1)

\* lines 57-60: the event synthesized from cfg.initial
InitialEvent(c) ==
    IF c.initial.event # "" THEN c.initial.event ELSE "startup"

HasInitial(c) == c.initial.state # ""

\* lines 43-63: the two indexes create builds from a configuration
Build(c) ==
    LET empty == [map |-> << >>, transitions |-> << >>]
        first == IF HasInitial(c)
                 THEN add(empty, EventSpec(InitialEvent(c), FALSE, <<"none">>,
                                           c.initial.state))
                 ELSE empty
    IN addAll(first, c.events, 1)

----------------------------------------------------------------------------
(* The configurations the model is run on *)

\* the callbacks a configuration can define, by the point that calls them:
\* onbefore<event>, onbeforeevent, onleave<state>, onleavestate,
\* onenter<state>, onenterstate, onchangestate, onafter<event>, onafterevent
HookPoints ==
    {"beforeThis", "beforeAny", "leaveThis", "leaveAny", "enterThis",
     "enterAny", "change", "afterThis", "afterAny"}

\* the sets of callbacks of the configurations: none, all of them, the
\* event-specific and state-specific ones, the general ones
HookSets ==
    { {}, HookPoints,
      {"beforeThis", "leaveThis", "enterThis", "afterThis"},
      {"beforeAny", "leaveAny", "enterAny", "change", "afterAny"} }

\* cfg.error: not given (line 81's default throws) or given by the caller
ErrorHandlers == {"default", "custom"}

\* what a handler given by the caller returns
HandlerReturns == {undefined, false}

\* what a callback returns: the code looks at the value of a before callback
\* (false or not) and of a leave callback (false, ASYNC or neither) and at no
\* other
HookReturns(pc) ==
    CASE pc \in {"leaveThis", "leaveAny"} -> {undefined, false, ASYNC}
      [] pc \in {"beforeThis", "beforeAny"} -> {undefined, false}
      [] OTHER -> {undefined}

\* start: created -> running, stop: running -> stopped, reset: * -> created
ScenarioEvents ==
    << EventSpec("start", FALSE, <<"created">>, "running"),
       EventSpec("stop", FALSE, <<"running">>, "stopped"),
       EventSpec("reset", FALSE, << >>, "created") >>

\* stay: no `to`, from an Array of states; idle: neither `from` nor `to`;
\* halt: * -> stopped, and running -> created by a second specification;
\* never: `from` an empty Array
MixedEvents ==
    << EventSpec("start", FALSE, <<"created">>, "running"),
       EventSpec("stay", TRUE, <<"created", "running">>, ""),
       EventSpec("idle", FALSE, << >>, ""),
       EventSpec("halt", FALSE, << >>, "stopped"),
       EventSpec("halt", FALSE, <<"running">>, "created"),
       EventSpec("never", TRUE, << >>, "stopped") >>

\* initial: 'created' with the scenario, and { state: 'created', defer: true }
\* with the other events
Machines ==
    { [initial |-> [state |-> "created", event |-> "", defer |-> FALSE],
       events |-> ScenarioEvents],
      [initial |-> [state |-> "created", event |-> "", defer |-> TRUE],
       events |-> MixedEvents] }

Configs ==
    { [initial |-> m.initial, events |-> m.events, hooks |-> h, error |-> er] :
        m \in Machines, h \in HookSets, er \in ErrorHandlers }

----------------------------------------------------------------------------
(* The introspection operations: create, lines 76-80 *)

\* hasOwnProperty on one event's map
hasOwnProperty(m, s) == s \in DOMAIN m

\* a can that looks for an entry for the current state alone
canExactOnly(event) ==
    /\ transition = null
    /\ hasOwnProperty(map[event], current)

\* line 77: fsm.can
can(event) ==
    /\ transition = null
    /\ \/ hasOwnProperty(map[event], current)
       \/ hasOwnProperty(map[event], WILDCARD)

\* a cannot that looks at the pending slot alone
cannotOnlyWhenPending(event) == transition # null

\* line 78: fsm.cannot
cannot(event) == ~can(event)

\* line 79: fsm.transitions, the list create filed under the current state
\* (undefined when it filed none)
fsm_transitions ==
    IF current \in DOMAIN transitions THEN transitions[current] ELSE undefined

\* line 76: fsm.is, for one state name
fsm_is(state) == current = state

\* line 80: fsm.isFinished, for a machine configured with the terminal state
isFinished(terminal) == fsm_is(terminal)

----------------------------------------------------------------------------
(* The dispatcher: buildEvent, lines 141-191, and the callbacks' wrappers *)

\* a lookup that takes the wildcard entry before the entry for the state
DestinationWildcardFirst(m, from) ==
    IF hasOwnProperty(m, WILDCARD) THEN m[WILDCARD]
    ELSE IF hasOwnProperty(m, from) THEN m[from]
    ELSE from

\* line 145: map[from] || map[WILDCARD] || from
Destination(m, from) ==
    IF hasOwnProperty(m, from) THEN m[from]
    ELSE IF hasOwnProperty(m, WILDCARD) THEN m[WILDCARD]
    ELSE from

\* a test that takes no value of a before callback for a cancellation
beforeNeverCancels(v) == FALSE

\* lines 115-116 and 154: false === the value of a before callback
beforeCancels(v) == v = false

\* a leaveState that looks for ASYNC before it looks for false
leaveStateAsyncFirst(specific, general) ==
    IF specific = ASYNC \/ general = ASYNC THEN ASYNC
    ELSE IF specific = false \/ general = false THEN false
    ELSE undefined

\* lines 128-131: the value of leaveState
leaveState(specific, general) ==
    IF specific = false \/ general = false THEN false
    ELSE IF specific = ASYNC \/ general = ASYNC THEN ASYNC
    ELSE undefined

\* line 157: from === to
noTransition(from, to) == from = to

\* the closure of lines 164-175, which binds name, from and to
Closure(name, from, to) == [name |-> name, from |-> from, to |-> to]

\* a call in progress
Frame(op, via, name, from, to, pc, mode) ==
    [op |-> op, via |-> via, name |-> name, from |-> from, to |-> to,
     t |-> IF op = "event" THEN null ELSE Closure(name, from, to),
     pc |-> pc, mode |-> mode, inHook |-> FALSE, hooks |-> << >>,
     before |-> "none", specific |-> "none", general |-> "none",
     errs |-> {}, nested |-> FALSE, repeat |-> FALSE,
     cur0 |-> current, tr0 |-> transition, ret |-> undefined]

\* the call has ended and returns ret (or raises, when ret is raised)
Done(f, ret) == [f EXCEPT !.pc = "done", !.ret = ret, !.inHook = FALSE]

\* line 81 and lines 98, 149, 152: what fsm.error makes of an error; r is what
\* a handler given by the caller returns
ErrorValue(r) == IF cfg.error = "default" THEN raised ELSE r

\* lines 144-152: the start of an event's function
EventEntry(name, r) ==
    LET from == current
        to   == Destination(map[name], from)
        f    == Frame("event", "call", name, from, to, "beforeThis", "event")
    IN IF transition # null
       THEN Done([f EXCEPT !.errs = {PENDING_TRANSITION}], ErrorValue(r))
       ELSE IF cannot(name)
       THEN Done([f EXCEPT !.errs = {INVALID_TRANSITION}], ErrorValue(r))
       ELSE f

Top == stack[Len(stack)]

\* an order that goes from the enter callbacks to the after callbacks and
\* leaves the change callback out
NextPointWithoutChange(pc) ==
    CASE pc = "enterThis" -> "enterAny"
      [] pc = "enterAny"  -> "afterThis"
      [] pc = "afterThis" -> "afterAny"
      [] OTHER            -> "done"

\* the order of the callbacks of the closure of lines 164-171 and of afterEvent
NextPoint(pc) ==
    CASE pc = "enterThis" -> "enterAny"
      [] pc = "enterAny"  -> "change"
      [] pc = "change"    -> "afterThis"
      [] pc = "afterThis" -> "afterAny"
      [] OTHER            -> "done"

\* lines 159, 170 and 175: what the code that ran afterEvent returns
AfterValue(mode) ==
    CASE mode = "noop"     -> NOTRANSITION
      [] mode = "finalize" -> SUCCEEDED
      [] OTHER             -> undefined

\* code calls the machine: the caller of create's result, or a callback in
\* progress.  The runs in which callbacks call the machine and the runs in
\* which the caller keeps a reference to a closure are explored apart: a
\* callback calls the machine only while no reference is kept.
TopLevel == phase = "ready" /\ stack = << >>
InCallback ==
    stack # << >> /\ Top.inHook /\ calls < MaxNested /\ kept = null
Calling == TopLevel \/ InCallback

\* the call f starts; the callback that made it, if any, has called the machine
Push(f) ==
    /\ stack' = IF stack = << >> THEN <<f>>
                ELSE Append([stack EXCEPT ![Len(stack)].nested = TRUE], f)
    /\ calls' = IF stack = << >> THEN 0 ELSE calls + 1

\* fsm.transition is invoked (line 165, or line 173 of its cancel): it is the
\* closure kept when kept is the one last put there
SlotInvoked == keptUsed' = (keptUsed \/ (kept # null /\ keptLive))

\* lines 83-84: create fires the initial event unless it is deferred
Create ==
    /\ phase = "create"
    /\ IF HasInitial(cfg) /\ ~cfg.initial.defer
       THEN /\ \E r \in HandlerReturns : Push(EventEntry(InitialEvent(cfg), r))
            /\ phase' = "initial"
       ELSE /\ phase' = "ready"
            /\ UNCHANGED <<stack, calls>>
    /\ UNCHANGED <<cfg, map, transitions, current, transition, kept, keptLive,
                   keptUsed, suspended>>

\* fsm[name](): lines 144-152
Fire(name) ==
    /\ Calling
    /\ name \in DOMAIN map
    /\ \E r \in HandlerReturns : Push(EventEntry(name, r))
    /\ UNCHANGED <<cfg, map, transitions, current, transition, kept, keptLive,
                   keptUsed, suspended, phase>>

\* var t = fsm.transition: the caller of the machine keeps a reference to the
\* closure
KeepReference ==
    /\ TopLevel
    /\ transition # null
    /\ ~(kept = transition /\ keptLive)
    /\ kept' = transition
    /\ keptLive' = TRUE
    /\ keptUsed' = FALSE
    /\ UNCHANGED <<cfg, map, transitions, current, transition, stack,
                   suspended, calls, phase>>

\* a closure that assigns its source state, not its destination, to current
FinalizeEntryToSource(c, via) ==
    /\ transition' = null
    /\ current' = c.from
    /\ suspended' = FALSE
    /\ Push([Frame("finalize", via, c.name, c.from, c.to, "enterThis",
                   "finalize") EXCEPT !.repeat = (via = "kept" /\ keptUsed)])

\* lines 165-166, the start of the closure c called from outside an event
FinalizeEntry(c, via) ==
    /\ transition' = null
    /\ current' = c.to
    /\ suspended' = FALSE
    /\ Push([Frame("finalize", via, c.name, c.from, c.to, "enterThis",
                   "finalize") EXCEPT !.repeat = (via = "kept" /\ keptUsed)])

\* fsm.transition(): the closure in the pending slot
Finalize ==
    /\ Calling
    /\ transition # null
    /\ FinalizeEntry(transition, "slot")
    /\ SlotInvoked
    /\ UNCHANGED <<cfg, map, transitions, kept, keptLive, phase>>

\* t(): the closure the caller kept
FinalizeKept ==
    /\ TopLevel
    /\ kept # null
    /\ FinalizeEntry(kept, "kept")
    /\ keptUsed' = TRUE
    /\ UNCHANGED <<cfg, map, transitions, kept, keptLive, phase>>

\* a cancel that runs afterEvent and leaves fsm.transition as it is
CancelEntryKeepsSlot(c, via) ==
    /\ transition' = transition
    /\ suspended' = suspended
    /\ Push(Frame("cancel", via, c.name, c.from, c.to, "afterThis", "cancel"))

\* line 173, the start of the cancel of the closure c
CancelEntry(c, via) ==
    /\ transition' = null
    /\ suspended' = FALSE
    /\ Push([Frame("cancel", via, c.name, c.from, c.to, "afterThis",
                   "cancel") EXCEPT !.repeat = (via = "kept" /\ keptUsed)])

\* fsm.transition.cancel()
Cancel ==
    /\ Calling
    /\ transition # null
    /\ CancelEntry(transition, "slot")
    /\ SlotInvoked
    /\ UNCHANGED <<cfg, map, transitions, current, kept, keptLive, phase>>

\* t.cancel()
CancelKept ==
    /\ TopLevel
    /\ kept # null
    /\ CancelEntry(kept, "kept")
    /\ keptUsed' = TRUE
    /\ UNCHANGED <<cfg, map, transitions, current, kept, keptLive, phase>>

\* the innermost call goes on as f
Replace(f) == stack' = [stack EXCEPT ![Len(stack)] = f]

\* lines 178-188: what the event's function does with the value of leaveState
\* when fsm.transition is slot
AfterLeave(leave, slot) ==
    IF leave = false THEN "cancel"
    ELSE IF leave = ASYNC THEN "pending"
    ELSE IF slot # null THEN "finalize"
    ELSE "nothing"

\* lines 154-188 and 164-175: the code between two callbacks.  The callback at
\* f.pc has given v (doCallback's value: undefined when there is no such
\* callback), and the call f runs to its next callback or to its end.
Continue(f, v) ==
    CASE f.pc = "beforeThis" ->
            /\ Replace(IF beforeCancels(v) THEN Done(f, CANCELLED)
                       ELSE [f EXCEPT !.pc = "beforeAny"])
            /\ UNCHANGED <<current, transition, keptLive, keptUsed, suspended>>
      [] f.pc = "beforeAny" ->
            IF beforeCancels(v)
            THEN /\ Replace(Done(f, CANCELLED))
                 /\ UNCHANGED <<current, transition, keptLive, keptUsed,
                                suspended>>
            ELSE IF noTransition(f.from, f.to)
            THEN /\ Replace([f EXCEPT !.pc = "afterThis", !.mode = "noop"])
                 /\ UNCHANGED <<current, transition, keptLive, keptUsed,
                                suspended>>
            ELSE /\ transition' = Closure(f.name, f.from, f.to)
                 /\ keptLive' = FALSE
                 /\ suspended' = FALSE
                 /\ Replace([f EXCEPT !.pc = "leaveThis"])
                 /\ UNCHANGED <<current, keptUsed>>
      [] f.pc = "leaveThis" ->
            /\ Replace([f EXCEPT !.pc = "leaveAny"])
            /\ UNCHANGED <<current, transition, keptLive, keptUsed, suspended>>
      [] f.pc = "leaveAny" ->
            LET next == AfterLeave(leaveState(f.specific, f.general), transition)
            IN CASE next = "cancel" ->
                       /\ transition' = null
                       /\ suspended' = FALSE
                       /\ Replace(Done(f, CANCELLED))
                       /\ UNCHANGED <<current, keptLive, keptUsed>>
                 [] next = "pending" ->
                       /\ suspended' = (transition # null)
                       /\ Replace(Done(f, PENDING))
                       /\ UNCHANGED <<current, transition, keptLive, keptUsed>>
                 [] next = "finalize" ->
                       /\ transition' = null
                       /\ current' = transition.to
                       /\ suspended' = FALSE
                       /\ SlotInvoked
                       /\ Replace([f EXCEPT !.pc = "enterThis",
                                            !.mode = "finalize",
                                            !.t = transition])
                       /\ UNCHANGED keptLive
                 [] OTHER ->
                       /\ Replace(Done(f, undefined))
                       /\ UNCHANGED <<current, transition, keptLive, keptUsed,
                                      suspended>>
      [] OTHER ->
            /\ Replace(IF NextPoint(f.pc) = "done"
                       THEN Done(f, AfterValue(f.mode))
                       ELSE [f EXCEPT !.pc = NextPoint(f.pc)])
            /\ UNCHANGED <<current, transition, keptLive, keptUsed, suspended>>

\* the call f, doCallback having given it v at f.pc: the values the code looks
\* at are those of the before callbacks (lines 115-116) and of the leave
\* callbacks (the locals of lines 126-127)
Given(f, v) ==
    CASE f.pc \in {"beforeThis", "beforeAny"} -> [f EXCEPT !.before = v]
      [] f.pc = "leaveThis" -> [f EXCEPT !.specific = v]
      [] f.pc = "leaveAny"  -> [f EXCEPT !.general = v]
      [] OTHER -> f

\* the innermost call is at a callback that has not started
AtCallback == stack # << >> /\ Top.pc # "done" /\ ~Top.inHook

\* line 93: the callback is not defined, and doCallback returns undefined
NoCallback ==
    /\ AtCallback
    /\ Top.pc \notin cfg.hooks
    /\ Continue(Given(Top, undefined), undefined)
    /\ UNCHANGED <<cfg, map, transitions, kept, calls, phase>>

\* the call f, its callback at f.pc started: the callback and the value of
\* fsm.current that it finds
Begun(f) ==
    [f EXCEPT !.inHook = TRUE,
              !.hooks = Append(@, [hook |-> f.pc, cur |-> current])]

\* the callback that starts can call the machine (see InCallback)
CanCallBack == calls < MaxNested /\ kept = null

\* line 95: the callback starts; it may call the machine before it ends
CallbackBegin ==
    /\ AtCallback
    /\ Top.pc \in cfg.hooks
    /\ CanCallBack
    /\ Replace(Begun(Top))
    /\ UNCHANGED <<cfg, map, transitions, current, transition, kept, keptLive,
                   keptUsed, suspended, calls, phase>>

\* a callback of the innermost call ends: one that is in progress, or one that
\* cannot call the machine, which starts and ends in one step
CallbackEnds ==
    /\ stack # << >>
    /\ \/ Top.inHook
       \/ AtCallback /\ Top.pc \in cfg.hooks /\ ~CanCallBack

\* the call f, its callback having run
Ended(f) == [(IF f.inHook THEN f ELSE Begun(f)) EXCEPT !.inHook = FALSE]

\* line 95: the callback returns v
CallbackReturn(v) ==
    /\ CallbackEnds
    /\ v \in HookReturns(Top.pc)
    /\ Continue(Given(Ended(Top), v), v)
    /\ UNCHANGED <<cfg, map, transitions, kept, calls, phase>>

\* lines 97-98: the callback throws, and doCallback gives the error to
\* fsm.error: the default raises it, and the call ends; a handler of the
\* caller's returns r, which doCallback returns as the callback's value.
\* (A call's errs are the errors that ended it.)
CallbackThrow(r) ==
    /\ CallbackEnds
    /\ IF ErrorValue(r) = raised
       THEN /\ Replace(Done([Ended(Top) EXCEPT !.errs = {INVALID_CALLBACK}],
                            raised))
            /\ UNCHANGED <<current, transition, keptLive, keptUsed,
                           suspended>>
       ELSE Continue(Given(Ended(Top), r), r)
    /\ UNCHANGED <<cfg, map, transitions, kept, calls, phase>>

\* the innermost call returns (or raises) to its caller
Return ==
    /\ stack # << >>
    /\ Top.pc = "done"
    /\ stack' = SubSeq(stack, 1, Len(stack) - 1)
    /\ phase' = IF Len(stack) = 1 THEN "ready" ELSE phase
    /\ calls' = IF Len(stack) = 1 THEN 0 ELSE calls
    /\ UNCHANGED <<cfg, map, transitions, current, transition, kept, keptLive,
                   keptUsed, suspended>>

Init ==
    /\ cfg \in Configs
    /\ map = Build(cfg).map
    /\ transitions = Build(cfg).transitions
    /\ current = "none"
    /\ transition = null
    /\ stack = << >>
    /\ kept = null
    /\ keptLive = FALSE
    /\ keptUsed = FALSE
    /\ suspended = FALSE
    /\ calls = 0
    /\ phase = "create"

Next ==
    \/ Create
    \/ \E name \in DOMAIN map : Fire(name)
    \/ KeepReference
    \/ Finalize
    \/ FinalizeKept
    \/ Cancel
    \/ CancelKept
    \/ NoCallback
    \/ CallbackBegin
    \/ \E v \in {undefined, false, ASYNC} : CallbackReturn(v)
    \/ \E r \in HandlerReturns : CallbackThrow(r)
    \/ Return

Spec == Init /\ [][Next]_vars

----------------------------------------------------------------------------
(* The transition table builder by itself: create, lines 43-63, run one call
   of add at a time on sequences of event specifications *)

\* the specifications the sequences are made of: two for the pair
\* (start, created), one with an Array of states and no `to`, one without
\* `from`, one for the pair of the synthesized initial event, and one whose
\* `from` is an empty Array
BuildEvents ==
    { EventSpec("start", FALSE, <<"created">>, "running"),
      EventSpec("start", FALSE, <<"created">>, "stopped"),
      EventSpec("start", TRUE, <<"created", "running">>, ""),
      EventSpec("start", FALSE, << >>, "created"),
      EventSpec("stop", FALSE, <<"running">>, "stopped"),
      EventSpec("startup", FALSE, <<"none">>, "stopped"),
      EventSpec("stop", TRUE, << >>, "stopped") }

\* cfg.initial: not given, or the state created
BuildInitials ==
    { [state |-> "", event |-> "", defer |-> FALSE],
      [state |-> "created", event |-> "", defer |-> FALSE] }

BuildConfigs ==
    { [initial |-> i, events |-> es, hooks |-> {}, error |-> "default"] :
        i \in BuildInitials,
        es \in UNION { [1..n -> BuildEvents] : n \in 0..MaxEvents } }

\* lines 43-44: the two indexes are empty
InitBuild ==
    /\ cfg \in BuildConfigs
    /\ map = << >>
    /\ transitions = << >>
    /\ phase = "build"
    /\ calls = 0
    /\ current = "none"
    /\ transition = null
    /\ stack = << >>
    /\ kept = null
    /\ keptLive = FALSE
    /\ keptUsed = FALSE
    /\ suspended = FALSE

\* lines 57-60: the initial event is added first, if cfg.initial is given
AddInitial ==
    /\ phase = "build"
    /\ LET acc == [map |-> map, transitions |-> transitions]
           new == IF HasInitial(cfg)
                  THEN add(acc, EventSpec(InitialEvent(cfg), FALSE,
                                          <<"none">>, cfg.initial.state))
                  ELSE acc
       IN map' = new.map /\ transitions' = new.transitions
    /\ phase' = "events"
    /\ UNCHANGED <<cfg, current, transition, stack, kept, keptLive, keptUsed,
                   suspended, calls>>

\* lines 62-63: one turn of the loop over cfg.events (calls is its n)
AddEvent ==
    /\ phase = "events"
    /\ calls < Len(cfg.events)
    /\ LET new == add([map |-> map, transitions |-> transitions],
                      cfg.events[calls + 1])
       IN map' = new.map /\ transitions' = new.transitions
    /\ calls' = calls + 1
    /\ UNCHANGED <<cfg, current, transition, stack, kept, keptLive, keptUsed,
                   suspended, phase>>

NextBuild == AddInitial \/ AddEvent

SpecBuild == InitBuild /\ [][NextBuild]_vars

----------------------------------------------------------------------------
(* What the claims are stated with *)

\* the call that a step starts
Started == stack'[Len(stack')]
Starts(op) == Len(stack') = Len(stack) + 1 /\ Started.op = op

\* the event has no entry for state s and no wildcard entry
NoEntry(event, s) ==
    s \notin DOMAIN map[event] /\ WILDCARD \notin DOMAIN map[event]

\* what a call that fsm.error ends returns
ErrorReturns == IF cfg.error = "default" THEN {raised} ELSE HandlerReturns

\* the callbacks the call f has started
HooksOf(f) == {f.hooks[i].hook : i \in 1..Len(f.hooks)}

\* a call that has ended does nothing more: it returns to its caller
EndedCallsOnlyReturn ==
    (stack # << >> /\ Top.pc = "done")
        => /\ stack' = SubSeq(stack, 1, Len(stack) - 1)
           /\ current' = current
           /\ transition' = transition

----------------------------------------------------------------------------
(* C1 *)

\* C1: firing an event that has neither an entry for the current state nor a
\* wildcard entry, while no transition is pending, reports INVALID_TRANSITION
\* to the error handler (and to it alone), starts no callback, and leaves
\* current and the pending slot as they were, whether the handler raises or
\* returns.
C1_InvalidTransitionRejected ==
    /\ [][(Starts("event") /\ transition = null
                           /\ NoEntry(Started.name, current))
            => /\ Started.pc = "done"
               /\ Started.errs = {INVALID_TRANSITION}
               /\ Started.ret \in ErrorReturns
               /\ Started.hooks = << >>
               /\ current' = current
               /\ transition' = transition]_vars
    /\ [][EndedCallsOnlyReturn]_vars

\* start is fired in state running, where it has no entry, and is rejected
C1_Witness ==
    /\ stack # << >>
    /\ Top.op = "event" /\ Top.name = "start" /\ Top.cur0 = "running"
    /\ Top.tr0 = null
    /\ Top.pc = "done" /\ Top.errs = {INVALID_TRANSITION}
    /\ current = "running" /\ transition = null

----------------------------------------------------------------------------
(* C2 *)

\* a step invokes the closure in the pending slot or its cancel: through
\* fsm.transition, or through a reference the caller kept to that closure
InvokesPending ==
    /\ Starts("finalize") \/ Starts("cancel")
    /\ \/ Started.via = "slot"
       \/ Started.via = "kept" /\ keptLive /\ kept = transition

\* while a transition is suspended, an event that is fired is rejected with
\* PENDING_TRANSITION, starts no callback and changes neither current nor the
\* pending slot
RejectedWhilePending ==
    (suspended /\ Starts("event"))
        => /\ Started.pc = "done"
           /\ Started.errs = {PENDING_TRANSITION}
           /\ Started.ret \in ErrorReturns
           /\ Started.hooks = << >>
           /\ current' = current
           /\ transition' = transition

\* C2: while the pending slot holds a suspended transition (its event returned
\* PENDING, and neither the closure nor its cancel has been invoked), firing
\* any event reports PENDING_TRANSITION, starts no callback and leaves current
\* and the pending slot unchanged; and the machine leaves the pending
\* condition only by the pending closure or its cancel being invoked.  (The
\* second part is stated of the steps of the machine's caller, no call being
\* in progress.)
C2_PendingLeftOnlyByFinalizeOrCancel ==
    [][/\ RejectedWhilePending
       /\ (suspended /\ stack = << >> /\ transition' # transition)
             => InvokesPending]_vars

----------------------------------------------------------------------------
(* C3 *)

BeforePoints == {"beforeThis", "beforeAny"}

\* the innermost call after a step
TopAfter == stack'[Len(stack')]

\* a before callback of the innermost call gives false (by returning it, or by
\* throwing when the caller's error handler returns it): the call ends
\* at once with CANCELLED, nothing changed and no callback started after it
BeforeFalseEndsCall ==
    (/\ stack # << >> /\ Len(stack') = Len(stack)
     /\ Top.pc \in BeforePoints
     /\ TopAfter.before = false)
        => /\ TopAfter.pc = "done"
           /\ TopAfter.ret = CANCELLED
           /\ HooksOf(TopAfter) \subseteq HooksOf(Top) \cup {Top.pc}
           /\ current' = current
           /\ transition' = transition

\* a call whose before callback gave false has ended with CANCELLED, has
\* started before callbacks only, and (unless one of them called the machine)
\* has left current and the pending slot as they were
CancelledByBefore ==
    \A i \in 1..Len(stack) :
        stack[i].before = false
            => /\ stack[i].pc = "done"
               /\ stack[i].ret = CANCELLED
               /\ HooksOf(stack[i]) \subseteq BeforePoints
               /\ ~stack[i].nested
                    => current = stack[i].cur0 /\ transition = stack[i].tr0

\* C3: for a permitted firing, if the event's before callback or the general
\* before callback gives false, the event returns CANCELLED, current and the
\* pending slot are unchanged, and no further callback runs: no leave, enter,
\* change or after callback, and not the general before callback when the
\* event's own gave false.
C3_BeforeFalseCancels ==
    /\ [][BeforeFalseEndsCall]_vars
    /\ [][EndedCallsOnlyReturn]_vars
    /\ []CancelledByBefore

\* onbeforestart returns false where onbeforeevent is defined too: start ends
\* with CANCELLED, having started onbeforestart alone
C3_Witness ==
    /\ stack # << >>
    /\ cfg.hooks = HookPoints
    /\ Top.op = "event" /\ Top.name = "start" /\ Top.from = "created"
    /\ Top.pc = "done" /\ Top.ret = CANCELLED /\ Top.before = false
    /\ HooksOf(Top) = {"beforeThis"}
    /\ current = "created" /\ transition = null

----------------------------------------------------------------------------
(* C4 *)

\* the entry of the event's map that decides a firing in state s
MatchedKey(event, s) == IF s \in DOMAIN map[event] THEN s ELSE WILDCARD

\* the specifications of cfg.events that wrote the entry (event, key)
SpecsFor(event, key) ==
    {i \in 1..Len(cfg.events) :
        /\ cfg.events[i].name = event
        /\ \E n \in 1..Len(FromList(cfg.events[i])) :
              FromList(cfg.events[i])[n] = key}

\* the entry that decides a firing of the event in state s was last written by
\* a specification without `to`
NoTo(event, s) ==
    LET is == SpecsFor(event, MatchedKey(event, s))
    IN /\ is # {}
       /\ cfg.events[CHOOSE i \in is : \A j \in is : j <= i].to = ""

\* the call f is a permitted firing of a self-transition
SelfTransition(f) ==
    /\ f.op = "event"
    /\ f.errs = {}
    /\ f.from = f.to \/ NoTo(f.name, f.from)

\* C4: a permitted firing of a self-transition (its destination is the state
\* it is fired from; every event specified without `to` is one, whether its
\* `from` is explicit or the wildcard) returns NOTRANSITION unless a before
\* callback cancels it, starts before and after callbacks only, and leaves
\* current unchanged.
C4_SelfTransitionIsNoTransition ==
    \A i \in 1..Len(stack) :
        SelfTransition(stack[i])
            => /\ HooksOf(stack[i]) \subseteq
                    {"beforeThis", "beforeAny", "afterThis", "afterAny"}
               /\ (stack[i].pc = "done" /\ stack[i].before # false)
                    => stack[i].ret = NOTRANSITION
               /\ ~stack[i].nested => current = stack[i].cur0

----------------------------------------------------------------------------
(* C5 *)

\* the callbacks the call f has started, in order
HookNames(f) == [i \in 1..Len(f.hooks) |-> f.hooks[i].hook]

\* those of the callbacks `points` that the configuration defines, in order
Defined(points) == SelectSeq(points, LAMBDA h : h \in cfg.hooks)

\* both leave callbacks of the event f have given their values: one gave
\* ASYNC and none gave false
LeaveAsync(f) ==
    /\ f.op = "event"
    /\ "none" \notin {f.specific, f.general}
    /\ ASYNC \in {f.specific, f.general}
    /\ false \notin {f.specific, f.general}

\* an event whose leave callbacks gave ASYNC (and did not call the machine)
\* has returned PENDING, with current still the source state and its closure
\* in the pending slot
SuspendsOnAsync ==
    \A i \in 1..Len(stack) :
        (LeaveAsync(stack[i]) /\ stack[i].pc = "done")
            => /\ stack[i].ret = PENDING
               /\ ~stack[i].nested
                    => /\ current = stack[i].from
                       /\ suspended
                       /\ transition = Closure(stack[i].name, stack[i].from,
                                               stack[i].to)

\* while a transition is suspended, current stays its source state until a
\* closure is invoked that takes it to the destination of that transition (as
\* the pending closure does)
CurrentStaysWhileSuspended ==
    (suspended /\ current' # current)
        => Starts("finalize") /\ current' = transition.to

\* invoking the pending closure of a suspended transition sets current to
\* the destination and empties the pending slot
FinalizeCommits ==
    (suspended /\ Starts("finalize") /\ InvokesPending)
        => /\ current' = transition.to
           /\ transition' = null
           /\ Started.pc = "enterThis"

\* a call of the pending closure that has returned has run the enter
\* callbacks, the change callback and the after callbacks once each, in this
\* order, and returned SUCCEEDED
FinalizeRunsHooksOnce ==
    \A i \in 1..Len(stack) :
        (/\ stack[i].op = "finalize" /\ stack[i].via = "slot"
         /\ stack[i].pc = "done" /\ stack[i].ret # raised)
            => /\ stack[i].ret = SUCCEEDED
               /\ HookNames(stack[i]) =
                    Defined(<<"enterThis", "enterAny", "change", "afterThis",
                              "afterAny">>)

\* C5: when a leave callback gives ASYNC and none gives false, the event
\* returns PENDING with current still the source state and the pending slot
\* holding the transition; current stays the source state until the pending
\* closure is invoked; and that call sets current to the destination, empties
\* the pending slot, runs the enter callbacks, the change callback and the
\* after callbacks once each and returns SUCCEEDED.
C5_SuspendedUntilFinalize ==
    /\ []SuspendsOnAsync
    /\ [][CurrentStaysWhileSuspended]_vars
    /\ [][FinalizeCommits]_vars
    /\ []FinalizeRunsHooksOnce

----------------------------------------------------------------------------
(* C6 *)

\* invoking the cancel of the suspended transition empties the pending slot
\* and leaves current as it is
CancelClearsSlot ==
    (suspended /\ Starts("cancel") /\ InvokesPending)
        => /\ current' = current
           /\ transition' = null
           /\ Started.pc = "afterThis"

\* a call of the pending cancel starts after callbacks only; when it has
\* returned it has run the event's after callback and then the general one;
\* and (unless a callback called the machine) current is what it was and the
\* pending slot is empty, so that every event with an entry for current or a
\* wildcard entry can be fired
CancelRunsAfterOnly ==
    \A i \in 1..Len(stack) :
        (stack[i].op = "cancel" /\ stack[i].via = "slot")
            => /\ HooksOf(stack[i]) \subseteq {"afterThis", "afterAny"}
               /\ (stack[i].pc = "done" /\ stack[i].ret # raised)
                    => HookNames(stack[i]) = Defined(<<"afterThis", "afterAny">>)
               /\ ~stack[i].nested
                    => /\ current = stack[i].cur0
                       /\ transition = null
                       /\ \A e \in DOMAIN map : ~NoEntry(e, current) => can(e)

\* an event fired while the pending slot is empty is not rejected with
\* PENDING_TRANSITION: it goes on to its callbacks when it is permitted
FiredWhenNotPending ==
    (Starts("event") /\ transition = null)
        => Started.errs = IF NoEntry(Started.name, current)
                          THEN {INVALID_TRANSITION} ELSE {}

\* C6: invoking the pending cancel of a suspended transition leaves current
\* the source state, empties the pending slot, runs the after callbacks (the
\* event's, then the general one) and neither the enter callbacks nor the
\* change callback; afterwards the events permitted in the source state can
\* be fired without PENDING_TRANSITION.
C6_CancelKeepsStateAndRunsAfter ==
    /\ [][CancelClearsSlot]_vars
    /\ []CancelRunsAfterOnly
    /\ [][FiredWhenNotPending]_vars

\* start was suspended in state created and its cancel has returned: both
\* after callbacks have run, current is created, the slot is empty and start
\* can be fired again
C6_Witness ==
    /\ stack # << >>
    /\ Top.op = "cancel" /\ Top.via = "slot" /\ Top.pc = "done"
    /\ Top.name = "start" /\ Top.from = "created"
    /\ HookNames(Top) = <<"afterThis", "afterAny">>
    /\ current = "created" /\ transition = null /\ can("start")

----------------------------------------------------------------------------
(* C7 *)

\* C7: once the finalize or the cancel of a suspended transition has been
\* invoked, a later invocation of the same closure (through a reference the
\* caller kept) starts no callback and leaves current and the pending slot as
\* they were.  (Stated for machines whose error handler returns: there the
\* closures a caller finds in the slot are those of suspended transitions.)
C7_SecondInvocationIsNoOp ==
    \A i \in 1..Len(stack) :
        (stack[i].repeat /\ cfg.error = "custom")
            => /\ stack[i].hooks = << >>
               /\ current = stack[i].cur0
               /\ transition = stack[i].tr0

----------------------------------------------------------------------------
(* C8 *)

\* C8: when a callback of an event raises and INVALID_CALLBACK ends the
\* event's call, current and the pending slot are what they were when the
\* event was fired (for events that the caller of the machine fires and whose
\* callbacks do not call the machine).
C8_CallbackErrorLeavesStateIntact ==
    (/\ Len(stack) = 1
     /\ Top.op = "event"
     /\ Top.pc = "done"
     /\ INVALID_CALLBACK \in Top.errs
     /\ ~Top.nested)
        => /\ current = Top.cur0
           /\ transition = Top.tr0

----------------------------------------------------------------------------
(* C9 *)

\* the destination the event's map gives for state s: that of its entry for
\* s, otherwise that of its wildcard entry
MapDestination(event, s) ==
    IF s \in DOMAIN map[event] THEN map[event][s] ELSE map[event][WILDCARD]

\* in a machine without callbacks an event fired in a state is rejected with
\* INVALID_TRANSITION, with nothing changed, exactly when its map has neither
\* an entry for the state nor a wildcard entry
RejectedWithoutEntry ==
    (Starts("event") /\ cfg.hooks = {})
        => /\ transition = null
           /\ IF NoEntry(Started.name, current)
              THEN /\ Started.pc = "done"
                   /\ Started.errs = {INVALID_TRANSITION}
                   /\ Started.ret \in ErrorReturns
                   /\ current' = current /\ transition' = transition
              ELSE Started.pc # "done" /\ Started.errs = {}

\* in a machine without callbacks a permitted event that has returned has
\* moved current to the destination its map gives for the state it was fired
\* in, and has returned SUCCEEDED when that destination is another state
\* (NOTRANSITION when it is the same state)
MovedToMapDestination ==
    \A i \in 1..Len(stack) :
        (/\ cfg.hooks = {}
         /\ stack[i].op = "event"
         /\ stack[i].pc = "done"
         /\ stack[i].errs = {})
            => LET s == stack[i].cur0
                   d == MapDestination(stack[i].name, s)
               IN /\ current = d
                  /\ transition = null
                  /\ stack[i].ret = IF d # s THEN SUCCEEDED ELSE NOTRANSITION

\* C9: in a machine without callbacks, idle in state s, a permitted event
\* moves current to the destination its map gives for s when it has an entry
\* for s, otherwise to the destination of its wildcard entry, and returns
\* SUCCEEDED when that destination differs from s; an event fired in a state
\* for which it has no entry and no wildcard entry reports
\* INVALID_TRANSITION.
C9_MovesToMapDestination ==
    /\ [][RejectedWithoutEntry]_vars
    /\ []MovedToMapDestination

\* the scenario, without callbacks: after start (a second start is rejected
\* in between), stop is fired in state running and has returned SUCCEEDED,
\* current being stopped
C9_Witness ==
    /\ cfg.hooks = {}
    /\ stack # << >>
    /\ Top.op = "event" /\ Top.name = "stop" /\ Top.cur0 = "running"
    /\ Top.pc = "done" /\ Top.ret = SUCCEEDED
    /\ current = "stopped"

----------------------------------------------------------------------------
(* C10 *)

\* the destinations T of the specifications of the event that have no `from`
\* and `to` = T
WildcardTo(event) ==
    {cfg.events[i].to : i \in {j \in 1..Len(cfg.events) :
        /\ cfg.events[j].name = event
        /\ ~cfg.events[j].isArray /\ cfg.events[j].from = << >>
        /\ cfg.events[j].to # ""}}

\* the event has an entry of its own for state s, besides the wildcard entry
ExplicitEntry(event, s) == s # WILDCARD /\ s \in DOMAIN map[event]

\* the call f is an event fired while the machine was idle that has returned,
\* none of its callbacks having cancelled it, suspended it, raised or called
\* the machine
Undisturbed(f) ==
    /\ f.op = "event" /\ f.pc = "done"
    /\ f.tr0 = null
    /\ f.before # false
    /\ leaveState(f.specific, f.general) = undefined
    /\ f.ret # raised
    /\ ~f.nested

\* an event that has a specification without `from` is never rejected with
\* INVALID_TRANSITION
WildcardNeverInvalid ==
    (Starts("event") /\ WildcardTo(Started.name) # {})
        => INVALID_TRANSITION \notin Started.errs

\* an undisturbed firing of an event whose specification without `from` has
\* `to` = T, in a state for which the event has no entry of its own, leaves
\* current = T and returns SUCCEEDED (NOTRANSITION when it was fired in T)
WildcardReachesTo ==
    \A i \in 1..Len(stack) :
        \A T \in WildcardTo(stack[i].name) :
            (Undisturbed(stack[i])
                /\ ~ExplicitEntry(stack[i].name, stack[i].cur0))
                => /\ current = T
                   /\ stack[i].ret = IF stack[i].cur0 = T THEN NOTRANSITION
                                     ELSE SUCCEEDED

----------------------------------------------------------------------------
(* C11 *)

\* create returns: the step that ends the construction
CreateReturns == phase # "ready" /\ phase' = "ready"

\* C11: when create returns, current is the configured initial state if the
\* initial event is not deferred (whatever callbacks the configuration
\* supplies, these not calling the machine), and "none" if it is deferred.
C11_InitialStateAfterCreate ==
    [][CreateReturns
        => IF cfg.initial.defer
           THEN current' = "none"
           ELSE (stack # << >> /\ ~Top.nested)
                    => current' = cfg.initial.state]_vars

----------------------------------------------------------------------------
(* C12 *)

\* the values of Result
Results == {SUCCEEDED, NOTRANSITION, CANCELLED, PENDING}

\* the call f is an event that has returned without an error having ended it
ReturnedEvent(f) ==
    f.op = "event" /\ f.pc = "done" /\ f.errs = {} /\ f.ret # raised

\* the call f is an event that has passed its leave callbacks, and these gave
\* neither false nor ASYNC
LeftNormally(f) ==
    /\ ReturnedEvent(f)
    /\ f.before # false
    /\ ~noTransition(f.from, f.to)
    /\ leaveState(f.specific, f.general) = undefined

\* C12: an event that is not rejected through the error handler returns
\* SUCCEEDED, NOTRANSITION, CANCELLED or PENDING; when its leave callbacks
\* give neither false nor ASYNC (also when one of them has invoked the
\* prepared transition itself) it returns SUCCEEDED.
C12_ReturnsAResult ==
    \A i \in 1..Len(stack) :
        /\ ReturnedEvent(stack[i]) => stack[i].ret \in Results
        /\ LeftNormally(stack[i]) => stack[i].ret = SUCCEEDED

----------------------------------------------------------------------------
(* C13 *)

\* the machine is idle: no call is in progress and no transition is pending
Idle == TopLevel /\ transition = null

\* the events that can be fired
CanFire == {e \in DOMAIN map : can(e)}

\* the list has no name twice
NoRepeat(list) ==
    \A i, j \in 1..Len(list) : list[i] = list[j] => i = j

\* C13: in every idle state, transitions() is a list that holds exactly the
\* events e for which can(e) is true, events specified without `from`
\* included, and none twice.
C13_TransitionsAreTheEventsThatCan ==
    Idle => /\ fsm_transitions # undefined
            /\ {fsm_transitions[i] : i \in 1..Len(fsm_transitions)} = CanFire
            /\ NoRepeat(fsm_transitions)

----------------------------------------------------------------------------
(* C14 *)

\* the callbacks of a firing, in the order claimed: those of the event's
\* function up to the leave callbacks, and those of the closure
UpToLeave == <<"beforeThis", "beforeAny", "leaveThis", "leaveAny">>
FromEnter == <<"enterThis", "enterAny", "change", "afterThis", "afterAny">>

\* every callback the call f has started found current = s
Observed(f, points, s) ==
    \A i \in 1..Len(f.hooks) :
        f.hooks[i].hook \in points => f.hooks[i].cur = s

\* the callbacks the call f has started are those that `points` lists and the
\* configuration defines, in order; the before and leave callbacks found
\* current = the source state, the others found it = the destination
InOrder(f, points) ==
    /\ HookNames(f) = Defined(points)
    /\ Observed(f, {"beforeThis", "beforeAny", "leaveThis", "leaveAny"},
                f.from)
    /\ Observed(f, {"enterThis", "enterAny", "change", "afterThis",
                    "afterAny"}, f.to)

\* C14: a firing that completes a state change runs its callbacks in the
\* order: the event's before, the general before, the state's leave, the
\* general leave, the state's enter, the general enter, change, the event's
\* after, the general after (the first four in the event's function, the
\* others in the transition closure, at once or when the caller finalizes a
\* suspended transition); the before and leave callbacks find current = the
\* source state, the others find current = the destination.  (For firings
\* whose callbacks do not call the machine.)
C14_CallbacksInFixedOrder ==
    \A i \in 1..Len(stack) :
        LET f == stack[i]
        IN (f.pc = "done" /\ ~f.nested /\ f.ret # raised)
            => /\ (f.op = "event" /\ f.ret = SUCCEEDED)
                    => InOrder(f, UpToLeave \o FromEnter)
               /\ (f.op = "event" /\ f.ret = PENDING)
                    => InOrder(f, UpToLeave)
               /\ (f.op = "finalize" /\ f.via = "slot")
                    => InOrder(f, FromEnter)

\* start has changed the state from created to running, all nine callbacks
\* being defined: they have run in the order claimed
C14_Witness ==
    /\ stack # << >>
    /\ Top.op = "event" /\ Top.name = "start" /\ Top.pc = "done"
    /\ Top.ret = SUCCEEDED /\ ~Top.nested
    /\ Top.from = "created" /\ current = "running"
    /\ HookNames(Top) = UpToLeave \o FromEnter

----------------------------------------------------------------------------
(* C15 *)

\* C15: the callbacks of two firings never interleave: an event that a
\* callback of a firing in progress fires starts no callback of its own (it
\* is rejected).
C15_NoInterleavedCallbacks ==
    \A i \in 2..Len(stack) :
        stack[i].op = "event"
            => /\ stack[i].hooks = << >>
               /\ stack[i].pc = "done"
               /\ stack[i].errs # {}

----------------------------------------------------------------------------
(* C16 *)

\* a leave callback of the event f has given false
LeaveFalse(f) == f.op = "event" /\ false \in {f.specific, f.general}

\* C16: when the state's leave callback or the general one gives false (also
\* when the other one gives ASYNC), the event starts no enter, change or
\* after callback and returns CANCELLED, with current unchanged and the
\* pending slot empty (for events whose callbacks do not call the machine).
C16_LeaveFalseCancels ==
    \A i \in 1..Len(stack) :
        LeaveFalse(stack[i])
            => /\ HooksOf(stack[i]) \subseteq
                    {"beforeThis", "beforeAny", "leaveThis", "leaveAny"}
               /\ (stack[i].pc = "done" /\ stack[i].ret # raised)
                    => /\ stack[i].ret = CANCELLED
                       /\ ~stack[i].nested
                            => /\ current = stack[i].cur0
                               /\ transition = null

\* start, fired in state created: the state's leave callback gave false and
\* the general one ASYNC, and start has returned CANCELLED with current still
\* created and the slot empty
C16_Witness ==
    /\ stack # << >>
    /\ Top.op = "event" /\ Top.name = "start" /\ Top.pc = "done"
    /\ Top.specific = false /\ Top.general = ASYNC
    /\ Top.ret = CANCELLED /\ ~Top.nested
    /\ Top.cur0 = "created" /\ current = "created" /\ transition = null

----------------------------------------------------------------------------
(* C17 *)

\* the step is the start of a transition closure (lines 165-166): one invoked
\* by the caller or by a callback, or the one in the slot invoked by the
\* event's function at line 187
FinalizeStep ==
    \/ Starts("finalize")
    \/ /\ stack # << >> /\ Len(stack') = Len(stack)
       /\ Top.op = "event" /\ Top.pc = "leaveAny"
       /\ TopAfter.pc = "enterThis" /\ TopAfter.mode = "finalize"
       /\ TopAfter.t = transition

\* the closure that a finalize step runs
Finalized == IF Starts("finalize") THEN Started.t ELSE TopAfter.t

\* a step that changes current is the start of a transition closure, and
\* current becomes the closure's destination
OnlyFinalizeAssignsCurrent ==
    current' # current => FinalizeStep /\ current' = Finalized.to

\* the start of an event's function and the start of a cancel leave current
\* as it is
EntryKeepsCurrent ==
    (Starts("event") \/ Starts("cancel")) => current' = current

\* the call f has ended as a rejected, cancelled, suspended or no-transition
\* event, or is a cancel
LeavesCurrent(f) ==
    \/ f.op = "cancel"
    \/ /\ f.op = "event" /\ f.pc = "done"
       /\ \/ f.errs \cap {INVALID_TRANSITION, PENDING_TRANSITION} # {}
          \/ f.ret \in {CANCELLED, NOTRANSITION, PENDING}

\* such calls leave current as they found it (their callbacks not calling the
\* machine)
CurrentAsFound ==
    \A i \in 1..Len(stack) :
        (LeavesCurrent(stack[i]) /\ ~stack[i].nested)
            => current = stack[i].cur0

\* C17: after create has set current to "none", every step that changes
\* current is the finalize step of a transition and sets current to that
\* transition's destination; rejected, CANCELLED, NOTRANSITION and PENDING
\* firings and cancel leave current unchanged (the introspection operations
\* is, can, cannot, transitions and isFinished are functions of the state and
\* assign nothing).
C17_CurrentChangesOnlyInFinalize ==
    /\ [][OnlyFinalizeAssignsCurrent]_vars
    /\ [][EntryKeepsCurrent]_vars
    /\ []CurrentAsFound

\* the caller has invoked the closure of start, suspended in state created:
\* current has become running, the closure's destination
C17_Witness ==
    /\ stack # << >>
    /\ Top.op = "finalize" /\ Top.name = "start"
    /\ Top.cur0 = "created" /\ Top.to = "running"
    /\ Top.tr0 = Closure("start", "created", "running")
    /\ current = "running" /\ transition = null

----------------------------------------------------------------------------
(* C18 *)

\* the state names of a configuration: its initial state, and every `from`
\* and every `to` of its event specifications
StateNames(c) ==
    (IF HasInitial(c) THEN {c.initial.state} ELSE {})
        \cup {c.events[i].to : i \in {j \in 1..Len(c.events) :
                                          c.events[j].to # ""}}
        \cup UNION {{c.events[i].from[n] : n \in 1..Len(c.events[i].from)} :
                        i \in 1..Len(c.events)}

\* C18: current is always "none" or one of the state names of the
\* configuration; it is never the wildcard symbol, also after an event
\* specified with neither `from` nor `to` has been fired.
C18_CurrentIsAConfiguredState ==
    current \in {"none"} \cup StateNames(cfg)

----------------------------------------------------------------------------
(* C19 *)

\* the specifications added so far, the synthesized initial event first
Added ==
    (IF phase = "events" /\ HasInitial(cfg)
     THEN <<EventSpec(InitialEvent(cfg), FALSE, <<"none">>,
                      cfg.initial.state)>>
     ELSE << >>) \o SubSeq(cfg.events, 1, calls)

\* the specification lists the pair (event, s)
ListsPair(spec, event, s) ==
    /\ spec.name = event
    /\ \E n \in 1..Len(FromList(spec)) : FromList(spec)[n] = s

\* the last of the specifications that lists the pair
LastListing(specs, event, s) ==
    specs[CHOOSE i \in 1..Len(specs) :
             /\ ListsPair(specs[i], event, s)
             /\ \A j \in (i + 1)..Len(specs) : ~ListsPair(specs[j], event, s)]

\* the destination a specification gives for the source s: its `to`, or s
\* itself when it has none
DestinationOf(spec, s) == IF spec.to # "" THEN spec.to ELSE s

\* the sources that the specifications list for the event
SourcesOf(specs, event) ==
    UNION { {FromList(specs[i])[n] : n \in 1..Len(FromList(specs[i]))} :
              i \in {j \in 1..Len(specs) : specs[j].name = event} }

\* the map holds the events named so far, and for every pair listed so far
\* the destination of the last specification that lists it
LastWriteWins ==
    /\ DOMAIN map = {Added[i].name : i \in 1..Len(Added)}
    /\ \A e \in DOMAIN map :
          /\ DOMAIN map[e] = SourcesOf(Added, e)
          /\ \A s \in DOMAIN map[e] :
                map[e][s] = DestinationOf(LastListing(Added, e, s), s)

\* no two specifications of the sequence list the same pair
NoSharedPair(specs) ==
    \A i, j \in 1..Len(specs) :
        i # j => \A s \in SourcesOf(specs, specs[i].name) :
                    ~(ListsPair(specs[i], specs[i].name, s)
                        /\ ListsPair(specs[j], specs[i].name, s))

\* the sequence in the order p
Permuted(specs, p) == [i \in 1..Len(specs) |-> specs[p[i]]]

\* when all of cfg.events is added and no two of them list the same pair,
\* every permutation of cfg.events builds the map that was built
PermutationsAgree ==
    (phase = "events" /\ calls = Len(cfg.events) /\ NoSharedPair(cfg.events))
        => \A p \in Permutations(1..Len(cfg.events)) :
              Build([cfg EXCEPT !.events = Permuted(cfg.events, p)]).map = map

\* C19: the map built from a sequence of event specifications holds, for
\* every (event, from) pair, the destination of the last specification that
\* lists the pair, the synthesized initial event counting as the first; and
\* two sequences that are permutations of each other, with no pair listed
\* twice, build the same map.
C19_LastSpecificationWins ==
    /\ LastWriteWins
    /\ PermutationsAgree
    /\ (phase = "events" /\ calls = Len(cfg.events)) => map = Build(cfg).map

\* start: created -> running, then start: created -> stopped, have been
\* added: the map holds stopped for the pair (start, created)
C19_Witness ==
    /\ phase = "events" /\ calls = 2 /\ Len(cfg.events) = 2
    /\ cfg.events[1] = EventSpec("start", FALSE, <<"created">>, "running")
    /\ cfg.events[2] = EventSpec("start", FALSE, <<"created">>, "stopped")
    /\ map["start"]["created"] = "stopped"

----------------------------------------------------------------------------
(* C20 *)

\* C20: every event name of the map has at least one source entry (a state
\* name or the wildcard); a specification whose `from` is unset or an empty
\* list gives the event a wildcard entry.
C20_EveryEventHasASource ==
    /\ \A e \in DOMAIN map : DOMAIN map[e] # {}
    /\ \A i \in 1..Len(Added) :
          (Added[i].from = << >>) => WILDCARD \in DOMAIN map[Added[i].name]

====
